---- MODULE Spec2Model ----
(***************************************************************************)
(* MF PipoNodes: the stateful nodes (Story Driver, Graph Plotter), their   *)
(* two reset routes, and the Story Sequence calculator (MF_ShotHelper).    *)
(*                                                                         *)
(* Python values are modelled as follows.  A str is a sequence of          *)
(* one-character strings (<<"3", ",", "8">> is "3,8"); an int is an        *)
(* integer; a dict is a function whose DOMAIN is its key set; a JSON body  *)
(* field or a hidden input that may hold values of several Python types is *)
(* a tagged record: [str |-> s], [int |-> n], [none |-> TRUE].             *)
(* The state file is read and written without I/O errors; it starts        *)
(* absent, as in a fresh checkout.                                         *)
(***************************************************************************)
EXTENDS Integers, Sequences, FiniteSets, TLC

VARIABLES
    _steps,        \* sequencing.py: the module-level dict project -> next step
    state_file,    \* graph_plotter_state.json: [exists |-> BOOLEAN, json |-> dict]
    ret,           \* the last completed call: its name, arguments and return value
    calls,         \* history: per project, execute calls since start or its last reset
    fresh_projects,\* history: projects reset with no execute since -> counter the reset found
    points,        \* history: per node key, plot_graph calls since its last reset
    fresh_nodes,   \* history: node keys reset with no plot_graph since -> points the reset found
    rebooted,      \* history: projects and node keys not used since the last restart
                   \*          -> the counter / point count the restart found
    step,          \* MF_ShotHelper input socket "step"
    beats,         \* MF_ShotHelper input widget "beats" (a str)
    written,       \* history: how the beats text was written ([list, notation]) or NoList
    shot_out,      \* MF_ShotHelper: its latest call's step and five outputs
    pc,            \* per thread: position inside its load-mutate-store call
    loc,           \* per thread: the call's arguments and its local `state` dict
    race_start,    \* history: the shared state before the concurrent calls began
    disk,          \* the file system the file nodes see: path -> directory or file
    HAS_YAML,      \* data.py: whether pyyaml was importable when the module loaded
    log_prev       \* history: per log file path, the entries appended by write_log
                   \*          and the log_content its last successful call returned

StoryVars == <<_steps, calls, fresh_projects>>
PlotVars == <<state_file, points, fresh_nodes>>
ShotVars == <<step, beats, written, shot_out>>
RaceVars == <<pc, loc, race_start>>
DiskVars == <<disk, HAS_YAML, log_prev>>

vars == <<StoryVars, PlotVars, ShotVars, RaceVars, DiskVars, ret, rebooted>>

---------------------------------------------------------------------------
(* Bounds of the model.                                                    *)

MaxBeats == 3        \* longest beat list written in a notation
MaxLen == 3          \* longest free-form beats text
MaxStep == 11        \* largest step fed to the calculator
MaxCount == 11       \* a Story Driver counter is not driven past this value
MaxHostCount == 3    \* the same, in the specification of the whole host
MaxPoints == 2       \* a plotter node is not given more points than this

BeatVals == {0 - 2, 0, 3, 10}
StepVals == {0 - 12, 0 - 1} \cup (0..MaxStep)
Alphabet == {"1", "-", ",", "\n", "[", "]", " ", "x"}

---------------------------------------------------------------------------
(* Python built-ins used by the nodes.                                     *)

Digits == <<"0", "1", "2", "3", "4", "5", "6", "7", "8", "9">>

IsDigit(c) == \E d \in 1..10 : Digits[d] = c

DigitVal(c) == (CHOOSE d \in 1..10 : Digits[d] = c) - 1

RECURSIVE NatStr(_)
NatStr(n) == IF n < 10 THEN <<Digits[n + 1]>>
             ELSE NatStr(n \div 10) \o <<Digits[(n % 10) + 1]>>

\* str(n) of an int
Str(n) == IF n < 0 THEN <<"-">> \o NatStr(0 - n) ELSE NatStr(n)

\* f"{n:02d}": sign-aware zero fill to a total width of 2
RECURSIVE ZeroFill(_, _)
ZeroFill(ds, width) == IF Len(ds) >= width THEN ds ELSE ZeroFill(<<"0">> \o ds, width)

Format02d(n) == IF n < 0 THEN <<"-">> \o ZeroFill(NatStr(0 - n), 1)
                ELSE ZeroFill(NatStr(n), 2)

Whitespace == {" ", "\t", "\n", "\r"}

RECURSIVE LStrip(_)
LStrip(s) == IF s # <<>> /\ Head(s) \in Whitespace THEN LStrip(Tail(s)) ELSE s

RECURSIVE RStrip(_)
RStrip(s) == IF s # <<>> /\ s[Len(s)] \in Whitespace
             THEN RStrip(SubSeq(s, 1, Len(s) - 1)) ELSE s

\* s.strip()
Strip(s) == RStrip(LStrip(s))

\* s.replace(old, new) for one-character old and new
Replace(s, old, new) == [i \in 1..Len(s) |-> IF s[i] = old THEN new ELSE s[i]]

\* s.split(sep) for a one-character sep: "" splits to [""]
RECURSIVE SplitFrom(_, _, _)
SplitFrom(s, sep, cur) ==
    IF s = <<>> THEN <<cur>>
    ELSE IF Head(s) = sep THEN <<cur>> \o SplitFrom(Tail(s), sep, <<>>)
    ELSE SplitFrom(Tail(s), sep, Append(cur, Head(s)))

Split(s, sep) == SplitFrom(s, sep, <<>>)

RECURSIVE DigitsVal(_, _)
DigitsVal(s, acc) ==
    IF s = <<>> THEN acc
    ELSE IF Head(s) = "_" THEN DigitsVal(Tail(s), acc)
    ELSE DigitsVal(Tail(s), 10 * acc + DigitVal(Head(s)))

\* the digit part of an int literal: digits, single underscores between digits
IsDigitPart(s) ==
    /\ s # <<>>
    /\ IsDigit(s[1]) /\ IsDigit(s[Len(s)])
    /\ \A i \in 1..Len(s) : IsDigit(s[i]) \/ s[i] = "_"
    /\ \A i \in 1..(Len(s) - 1) : ~(s[i] = "_" /\ s[i + 1] = "_")

\* int(s): [ok |-> FALSE] stands for ValueError
ParseInt(s0) ==
    LET s == Strip(s0)
        signed == s # <<>> /\ Head(s) \in {"+", "-"}
        body == IF signed THEN Tail(s) ELSE s
    IN  IF IsDigitPart(body)
        THEN [ok |-> TRUE,
              val |-> IF signed /\ Head(s) = "-" THEN 0 - DigitsVal(body, 0)
                      ELSE DigitsVal(body, 0)]
        ELSE [ok |-> FALSE, val |-> 0]

\* a plausible slip: the beats are used in the order written
Unsorted(l) == l

\* sorted(list) of ints
RECURSIVE Insert(_, _)
Insert(x, l) == IF l = <<>> THEN <<x>>
                ELSE IF x <= Head(l) THEN <<x>> \o l
                ELSE <<Head(l)>> \o Insert(x, Tail(l))

RECURSIVE Sorted(_)
Sorted(l) == IF l = <<>> THEN <<>> ELSE Insert(Head(l), Sorted(Tail(l)))

---------------------------------------------------------------------------
(* MF_ShotHelper.calculate_sequence_shot                                   *)

\* a plausible slip: an element that is not an integer is skipped, the others kept
RECURSIVE ParsePiecesLenient(_)
ParsePiecesLenient(pieces) ==
    IF pieces = <<>> THEN [ok |-> TRUE, list |-> <<>>]
    ELSE LET b == Strip(Head(pieces))
             rest == ParsePiecesLenient(Tail(pieces))
         IN  IF b = <<>> \/ ~ParseInt(b).ok THEN rest
             ELSE [ok |-> TRUE, list |-> <<ParseInt(b).val>> \o rest.list]

\* [int(b.strip()) for b in pieces if b.strip()]; ok is FALSE on ValueError
RECURSIVE ParsePieces(_)
ParsePieces(pieces) ==
    IF pieces = <<>> THEN [ok |-> TRUE, list |-> <<>>]
    ELSE LET b == Strip(Head(pieces))
             rest == ParsePieces(Tail(pieces))
         IN  IF b = <<>> THEN rest
             ELSE IF ~ParseInt(b).ok \/ ~rest.ok THEN [ok |-> FALSE, list |-> <<>>]
             ELSE [ok |-> TRUE, list |-> <<ParseInt(b).val>> \o rest.list]

\* beats_clean[1:-1] when the text starts with "[" and ends with "]"
StripBrackets(s) ==
    IF s # <<>> /\ Head(s) = "[" /\ s[Len(s)] = "]"
    THEN SubSeq(s, 2, Len(s) - 1) ELSE s

\* lines 55-74: the beat list, [] for blank text and on ValueError
ParseBeats(b) ==
    IF Strip(b) = <<>> THEN [ok |-> TRUE, list |-> <<>>]
    ELSE LET beats_clean == Replace(StripBrackets(Strip(b)), "\n", ",")
             parsed == ParsePieces(Split(beats_clean, ","))
         IN  IF parsed.ok THEN [ok |-> TRUE, list |-> Sorted(parsed.list)]
             ELSE [ok |-> FALSE, list |-> <<>>]

\* a plausible slip: the beat step itself still belongs to the old sequence
RECURSIVE SequenceLoopAfterBeat(_, _, _, _)
SequenceLoopAfterBeat(beat_list, st, sequence_num, shot_start) ==
    IF beat_list = <<>> THEN [sequence_num |-> sequence_num, shot_start |-> shot_start]
    ELSE IF st > Head(beat_list)
         THEN SequenceLoopAfterBeat(Tail(beat_list), st, sequence_num + 1, Head(beat_list))
         ELSE [sequence_num |-> sequence_num, shot_start |-> shot_start]

\* lines 77-85: the loop over the sorted beats, with its break
RECURSIVE SequenceLoop(_, _, _, _)
SequenceLoop(beat_list, st, sequence_num, shot_start) ==
    IF beat_list = <<>> THEN [sequence_num |-> sequence_num, shot_start |-> shot_start]
    ELSE IF st >= Head(beat_list)
         THEN SequenceLoop(Tail(beat_list), st, sequence_num + 1, Head(beat_list))
         ELSE [sequence_num |-> sequence_num, shot_start |-> shot_start]

\* a plausible slip: the shot number counted from 0
shot_number_zero_based(st, shot_start) == st - shot_start

\* line 88
shot_number(st, shot_start) == st - shot_start + 1

calculate_sequence_shot(st, b) ==
    LET beat_list == ParseBeats(b).list
        at == SequenceLoop(beat_list, st, 1, 0)
        shot_num == shot_number(st, at.shot_start)
    IN  [sequence_int |-> at.sequence_num,
         sequence_str |-> Str(at.sequence_num),
         shot_int |-> shot_num,
         shot_str |-> Str(shot_num),
         shot_name |-> <<"s", "e", "q">> \o Format02d(at.sequence_num)
                       \o <<"_", "s", "h", "o", "t">> \o Format02d(shot_num)]

---------------------------------------------------------------------------
(* Dicts, and the values the stateful nodes are called with.               *)

EmptyDict == [k \in {} |-> 0]

\* d.get(k, default)
Get(d, k, default) == IF k \in DOMAIN d THEN d[k] ELSE default

\* d[k] = v
Put(d, k, v) == [x \in (DOMAIN d) \cup {k} |-> IF x = k THEN v ELSE d[x]]

\* d without the key k
Without(d, k) == [x \in (DOMAIN d) \ {k} |-> d[x]]

MyProject == <<"M", "y", "P", "r", "o", "j", "e", "c", "t">>
DefaultNode == <<"d", "e", "f", "a", "u", "l", "t">>

ProjectNames == {MyProject, <<"A", " ", "B">>}
Seeds == {0, 42}
YVals == {0 - 1, 5}

\* values of the hidden input unique_id and of the JSON field node_id
NodeIdValues == {[none |-> TRUE], [str |-> <<>>], [str |-> <<"1">>],
                 [str |-> DefaultNode], [int |-> 0], [int |-> 1]}

\* the string keys under which nodes are persisted
NodeKeys == {<<"1">>, DefaultNode}

\* bool(v)
Truthy(v) == IF "str" \in DOMAIN v THEN v.str # <<>>
             ELSE IF "int" \in DOMAIN v THEN v.int # 0
             ELSE FALSE

\* str(v)
PyStr(v) == IF "str" \in DOMAIN v THEN v.str
            ELSE IF "int" \in DOMAIN v THEN Str(v.int)
            ELSE <<"N", "o", "n", "e">>

\* request bodies of the two routes: not JSON, or a JSON object with some fields
NoJson == [json |-> FALSE]
JsonBody(fields) == [json |-> TRUE, data |-> fields]

StoryRequests == {NoJson, JsonBody(EmptyDict)}
    \cup {JsonBody([f \in {"project_name"} |-> p]) : p \in ProjectNames}

GraphRequests == {NoJson, JsonBody(EmptyDict)}
    \cup {JsonBody([f \in {"node_id"} |-> v]) : v \in NodeIdValues}

---------------------------------------------------------------------------
(* MF_StoryDriver                                                          *)

\* lines 145-148: the value returned and the dict stored
execute_step(projectName) == Get(_steps, projectName, 0)

\* a plausible slip: the value read is stored back without the increment
execute_store_same(projectName) == Put(_steps, projectName, execute_step(projectName))

execute_store(projectName) == Put(_steps, projectName, execute_step(projectName) + 1)

execute(projectName, storySeed) ==
    LET current_step == execute_step(projectName)
        project_name_output == Replace(projectName, " ", "_")
    IN  /\ current_step < MaxCount
        /\ _steps' = execute_store(projectName)
        /\ ret' = [op |-> "execute",
                   projectName |-> projectName,
                   after_reset |-> projectName \in DOMAIN fresh_projects,
                   reset_found |-> Get(fresh_projects, projectName, 0 - 1),
                   after_restart |-> projectName \in DOMAIN rebooted,
                   step_int |-> current_step,
                   step_str |-> Str(current_step),
                   projectName_out |-> project_name_output,
                   saveFolder |-> project_name_output \o <<"_">> \o Str(storySeed),
                   storySeed |-> storySeed]
        /\ calls' = [calls EXCEPT ![projectName] = @ + 1]
        /\ fresh_projects' = Without(fresh_projects, projectName)
        /\ rebooted' = Without(rebooted, projectName)
        /\ UNCHANGED <<PlotVars, ShotVars, RaceVars, DiskVars>>

\* a plausible slip: the reset leaves the dict as it is
reset_project_store_kept(project_name) == _steps

\* line 173
reset_project_store(project_name) == Put(_steps, project_name, 0)

do_reset_project(project_name) ==
    /\ _steps' = reset_project_store(project_name)
    /\ calls' = [calls EXCEPT ![project_name] = 0]
    /\ fresh_projects' = Put(fresh_projects, project_name, Get(_steps, project_name, 0 - 1))

reset_project(project_name) ==
    /\ do_reset_project(project_name)
    /\ ret' = [op |-> "reset_project", project_name |-> project_name]
    /\ UNCHANGED <<PlotVars, ShotVars, RaceVars, DiskVars, rebooted>>

\* data.get("project_name", "MyProject")
request_project_name(data) == Get(data, "project_name", MyProject)

\* POST /story_driver/reset
reset_story_driver(request) ==
    /\ IF request.json
       THEN /\ do_reset_project(request_project_name(request.data))
            /\ ret' = [op |-> "reset_story_driver", status |-> 200, success |-> TRUE,
                       project_name |-> request_project_name(request.data), step |-> 0]
       ELSE /\ ret' = [op |-> "reset_story_driver", status |-> 500, success |-> FALSE]
            /\ UNCHANGED StoryVars
    /\ UNCHANGED <<PlotVars, ShotVars, RaceVars, DiskVars, rebooted>>

---------------------------------------------------------------------------
(* MF_GraphPlotter and its state file                                      *)

EmptyEntry == [x_data |-> <<>>, y_data |-> <<>>]

\* a plausible slip: an int key is kept apart from the str key of the same name
JsonKeyTyped(k) == k

\* the key json.dump writes for a dict key: a str as it is, an int as str(int)
JsonKey(k) == [str |-> PyStr(k)]

\* json.load(json.dump(state)): every key becomes a str; when a str key and a
\* later inserted int key are written under the same name, the later one is read
JsonRoundTrip(state) ==
    [k \in {JsonKey(k0) : k0 \in DOMAIN state} |->
        LET later == {k0 \in DOMAIN state : JsonKey(k0) = k /\ k0 # k}
        IN  IF later # {} THEN state[CHOOSE k0 \in later : TRUE] ELSE state[k]]

\* a plausible slip: the state on disk is not loaded
_read_graph_state_unloaded == EmptyDict

\* lines 13-19: the dict loaded from a file, {} when the file does not exist
json_load(file) == IF file.exists THEN file.json ELSE EmptyDict

\* lines 11-19
_read_graph_state == json_load(state_file)

\* lines 22-28: the file content after the write
_write_graph_state(state) == [exists |-> TRUE, json |-> JsonRoundTrip(state)]

\* line 78
plot_node_id(unique_id) == IF Truthy(unique_id) THEN PyStr(unique_id) ELSE DefaultNode

\* a plausible slip: X is the point count, without the + 1
plot_mutate_zero_based(state, Y, node_id) ==
    LET key == [str |-> node_id]
        node_data == Get(state, key, EmptyEntry)
        X == Len(node_data.x_data)
    IN  Put(state, key, [x_data |-> Append(node_data.x_data, X),
                         y_data |-> Append(node_data.y_data, Y)])

\* lines 79-89: the dict after the new point is appended
plot_mutate(state, Y, node_id) ==
    LET key == [str |-> node_id]
        node_data == Get(state, key, EmptyEntry)
        X == Len(node_data.x_data) + 1
    IN  Put(state, key, [x_data |-> Append(node_data.x_data, X),
                         y_data |-> Append(node_data.y_data, Y)])

plot_graph(Y, unique_id) ==
    LET node_id == plot_node_id(unique_id)
        state == plot_mutate(_read_graph_state, Y, node_id)
        node_data == state[[str |-> node_id]]
    IN  /\ Len(node_data.x_data) <= MaxPoints
        /\ state_file' = _write_graph_state(state)
        /\ ret' = [op |-> "plot_graph",
                   Y |-> Y,
                   unique_id |-> unique_id,
                   after_reset |-> node_id \in DOMAIN fresh_nodes,
                   reset_found |-> Get(fresh_nodes, node_id, 0 - 1),
                   after_restart |-> node_id \in DOMAIN rebooted,
                   restart_found |-> Get(rebooted, node_id, 0 - 1),
                   X |-> node_data.x_data[Len(node_data.x_data)],
                   x_values |-> node_data.x_data,
                   y_values |-> node_data.y_data,
                   node_id |-> node_id,
                   point_count |-> Len(node_data.x_data)]
        /\ points' = [points EXCEPT ![node_id] = @ + 1]
        /\ fresh_nodes' = Without(fresh_nodes, node_id)
        /\ rebooted' = Without(rebooted, node_id)
        /\ UNCHANGED <<StoryVars, ShotVars, RaceVars, DiskVars>>

\* a plausible slip: the reset starts from an empty dict
reset_mutate_all(state, node_id) == Put(EmptyDict, node_id, EmptyEntry)

\* line 116
reset_mutate(state, node_id) == Put(state, node_id, EmptyEntry)

do_reset_node_data(node_id) ==
    /\ state_file' = _write_graph_state(reset_mutate(_read_graph_state, node_id))
    /\ points' = [points EXCEPT ![PyStr(node_id)] = 0]
    /\ fresh_nodes' = Put(fresh_nodes, PyStr(node_id), points[PyStr(node_id)])

reset_node_data(node_id) ==
    /\ do_reset_node_data(node_id)
    /\ ret' = [op |-> "reset_node_data", node_id |-> node_id]
    /\ UNCHANGED <<StoryVars, ShotVars, RaceVars, DiskVars, rebooted>>

\* data.get("node_id")
request_node_id(data) == Get(data, "node_id", [none |-> TRUE])

\* POST /graph_plotter/reset
reset_graph_plotter(request) ==
    /\ IF ~request.json
       THEN /\ ret' = [op |-> "reset_graph_plotter", request |-> request,
                       status |-> 500, success |-> FALSE]
            /\ UNCHANGED PlotVars
       ELSE IF ~Truthy(request_node_id(request.data))
       THEN /\ ret' = [op |-> "reset_graph_plotter", request |-> request,
                       status |-> 400, success |-> FALSE]
            /\ UNCHANGED PlotVars
       ELSE /\ do_reset_node_data(request_node_id(request.data))
            /\ ret' = [op |-> "reset_graph_plotter", request |-> request,
                       status |-> 200, success |-> TRUE,
                       node_id |-> request_node_id(request.data)]
    /\ UNCHANGED <<StoryVars, ShotVars, RaceVars, DiskVars, rebooted>>

---------------------------------------------------------------------------
(* The host process                                                        *)

\* a restart of the host re-imports sequencing.py (_steps = {}) and leaves the
\* state file on disk
\* a plausible slip: the counters outlive the process (as the state file does)
restart_steps_kept == _steps

\* sequencing.py line 6, run at import
restart_steps == EmptyDict

Restart ==
    /\ _steps' = restart_steps
    /\ calls' = [p \in ProjectNames |-> 0]
    /\ rebooted' = [k \in ProjectNames \cup NodeKeys |->
                        IF k \in ProjectNames THEN Get(_steps, k, 0) ELSE points[k]]
    /\ ret' = [op |-> "restart"]
    /\ UNCHANGED <<state_file, points, fresh_nodes, fresh_projects, ShotVars, RaceVars, DiskVars>>

NoList == [notation |-> "none", list |-> <<>>]

InitStory ==
    /\ _steps = EmptyDict
    /\ calls = [p \in ProjectNames |-> 0]
    /\ fresh_projects = EmptyDict

InitPlot ==
    /\ state_file = [exists |-> FALSE, json |-> EmptyDict]
    /\ points = [k \in NodeKeys |-> 0]
    /\ fresh_nodes = EmptyDict

NoShot == [called |-> FALSE]

InitShotIdle == step = 0 /\ beats = <<>> /\ written = NoList /\ shot_out = NoShot

InitRaceIdle == pc = EmptyDict /\ loc = EmptyDict /\ race_start = EmptyDict

\* nothing is on the disk yet; pyyaml is installed
InitDiskIdle == disk = EmptyDict /\ HAS_YAML = TRUE /\ log_prev = EmptyDict

Init ==
    /\ InitStory /\ InitPlot /\ InitShotIdle /\ InitRaceIdle /\ InitDiskIdle
    /\ ret = [op |-> "start"]
    /\ rebooted = EmptyDict

\* the Story Driver with its route, across restarts
NextStory ==
    \/ \E p \in ProjectNames, seed \in Seeds : execute(p, seed)
    \/ \E p \in ProjectNames : reset_project(p)
    \/ \E r \in StoryRequests : reset_story_driver(r)
    \/ Restart

SpecStory == Init /\ [][NextStory]_vars

\* the Graph Plotter with its route, across restarts
NextPlot ==
    \/ \E y \in YVals, u \in NodeIdValues : plot_graph(y, u)
    \/ \E v \in {v \in NodeIdValues : Truthy(v)} : reset_node_data(v)
    \/ \E r \in GraphRequests : reset_graph_plotter(r)
    \/ Restart

SpecPlot == Init /\ [][NextPlot]_vars

\* the whole host: both nodes and both routes, with one seed, one Y value and
\* the node ids the editor sends
Next ==
    \/ \E p \in ProjectNames : execute_step(p) < MaxHostCount /\ execute(p, 0)
    \/ \E r \in StoryRequests : reset_story_driver(r)
    \/ \E u \in {[str |-> <<"1">>]} : plot_graph(5, u)
    \/ \E r \in {JsonBody([f \in {"node_id"} |-> [int |-> 1]])} : reset_graph_plotter(r)
    \/ Restart

Spec == Init /\ [][Next]_vars

---------------------------------------------------------------------------
(* MF_ShotHelper called on its own, and driven by the Story Driver.        *)

Notations == {"comma", "lines", "array"}

\* sep.join(parts)
RECURSIVE Join(_, _)
Join(parts, sep) ==
    IF parts = <<>> THEN <<>>
    ELSE IF Len(parts) = 1 THEN parts[1]
    ELSE parts[1] \o <<sep>> \o Join(Tail(parts), sep)

\* a beat list written in one of the three notations of DESCRIPTION
WriteBeats(list, notation) ==
    LET items == [i \in 1..Len(list) |-> Str(list[i])]
    IN  IF notation = "comma" THEN Join(items, ",")
        ELSE IF notation = "lines" THEN Join(items, "\n")
        ELSE <<"[">> \o Join(items, ",") \o <<"]">>

BeatLists == UNION {[1..n -> BeatVals] : n \in 0..MaxBeats}

FreeTexts == UNION {[1..n -> Alphabet] : n \in 0..MaxLen}

\* the node runs with the step it is given and the beats text of its widget
shot_helper(st) ==
    /\ step' = st
    /\ shot_out' = [called |-> TRUE, step |-> st,
                    result |-> calculate_sequence_shot(st, beats)]
    /\ ret' = [op |-> "calculate_sequence_shot"]
    /\ UNCHANGED <<beats, written>>

InitBeats ==
    \/ \E l \in BeatLists, n \in Notations :
          beats = WriteBeats(l, n) /\ written = [notation |-> n, list |-> l]
    \/ \E t \in FreeTexts : beats = t /\ written = NoList

InitShot ==
    /\ InitStory /\ InitPlot /\ InitRaceIdle /\ InitDiskIdle
    /\ ret = [op |-> "start"]
    /\ rebooted = EmptyDict
    /\ step \in StepVals
    /\ InitBeats
    /\ shot_out = NoShot

NextShot ==
    shot_helper(step) /\ UNCHANGED <<StoryVars, PlotVars, RaceVars, DiskVars, rebooted>>

SpecShot == InitShot /\ [][NextShot]_vars

\* one prompt of the workflow Story Driver -> Story Sequence: the driver runs,
\* then the calculator runs on the driver's step_int
InitDrive ==
    /\ InitStory /\ InitPlot /\ InitRaceIdle /\ InitDiskIdle
    /\ ret = [op |-> "start"]
    /\ rebooted = EmptyDict
    /\ step = 0
    /\ \E l \in BeatLists, n \in Notations :
          beats = WriteBeats(l, n) /\ written = [notation |-> n, list |-> l]
    /\ shot_out = NoShot

NextDrive ==
    \/ ret.op # "execute" /\ execute(MyProject, 0)
    \/ /\ ret.op = "execute"
       /\ shot_helper(ret.step_int)
       /\ UNCHANGED <<StoryVars, PlotVars, RaceVars, DiskVars, rebooted>>
    \/ ret.op # "execute" /\ reset_story_driver(JsonBody(EmptyDict))

SpecDrive == InitDrive /\ [][NextDrive]_vars

---------------------------------------------------------------------------
(* Two calls on the state file from two threads: plot_graph runs on the    *)
(* host's execution thread, the reset route on its server thread.  Each    *)
(* call is a file read, a mutation of its local dict, and a file write;    *)
(* the read and the write are the steps that interleave.                   *)

Threads == {"worker", "server"}

RaceCalls ==
    {[op |-> "plot_graph", Y |-> y, arg |-> u] :
        y \in YVals, u \in {[str |-> <<"1">>], [none |-> TRUE]}}
    \cup {[op |-> "reset_node_data", Y |-> 0, arg |-> v] :
        v \in {[int |-> 1], [str |-> DefaultNode]}}

\* the node key a call works on
CallKey(c) == IF c.op = "plot_graph" THEN plot_node_id(c.arg) ELSE PyStr(c.arg)

\* the call's mutation of the dict it loaded
CallMutate(c, state) ==
    IF c.op = "plot_graph" THEN plot_mutate(state, c.Y, plot_node_id(c.arg))
    ELSE reset_mutate(state, c.arg)

\* a file left by earlier plot_graph calls with Y = 5
EntryOfLength(n) == [x_data |-> [i \in 1..n |-> i], y_data |-> [i \in 1..n |-> 5]]

RaceFiles ==
    {[exists |-> FALSE, json |-> EmptyDict]}
    \cup {[exists |-> TRUE, json |-> [k \in {[str |-> key] : key \in K} |-> EntryOfLength(len[k.str])]] :
            K \in SUBSET NodeKeys, len \in [NodeKeys -> 0..MaxPoints]}

InitRace ==
    /\ InitStory /\ InitShotIdle /\ InitDiskIdle
    /\ points = [k \in NodeKeys |-> 0] /\ fresh_nodes = EmptyDict
    /\ ret = [op |-> "start"]
    /\ rebooted = EmptyDict
    /\ state_file \in RaceFiles
    /\ race_start = state_file
    /\ pc = [t \in Threads |-> "called"]
    /\ loc \in [Threads -> {[call |-> c, state |-> EmptyDict] : c \in RaceCalls}]

\* state = _read_graph_state()
race_read(t) ==
    /\ pc[t] = "called"
    /\ loc' = [loc EXCEPT ![t].state = _read_graph_state]
    /\ pc' = [pc EXCEPT ![t] = "loaded"]
    /\ UNCHANGED <<StoryVars, PlotVars, ShotVars, DiskVars, race_start, ret, rebooted>>

\* the mutation, then _write_graph_state(state)
race_write(t) ==
    /\ pc[t] = "loaded"
    /\ state_file' = _write_graph_state(CallMutate(loc[t].call, loc[t].state))
    /\ pc' = [pc EXCEPT ![t] = "returned"]
    /\ UNCHANGED <<StoryVars, points, fresh_nodes, ShotVars, DiskVars, loc, race_start, ret, rebooted>>

NextRace ==
    \/ \E t \in Threads : race_read(t)
    \/ \E t \in Threads : race_write(t)

SpecRace == InitRace /\ [][NextRace]_vars

\* the file after call a has run to completion and then call b, from `file`
Sequential(file, a, b) ==
    _write_graph_state(CallMutate(b,
        json_load(_write_graph_state(CallMutate(a, json_load(file))))))

\* C6: when two calls on different nodes have both returned, the state file
\* holds the effect of both: it is what one of their two sequential orders
\* leaves.
C6_NoOrderingRace ==
    ((\A t \in Threads : pc[t] = "returned")
        /\ CallKey(loc["worker"].call) # CallKey(loc["server"].call)) =>
    state_file \in {Sequential(race_start, loc["worker"].call, loc["server"].call),
                    Sequential(race_start, loc["server"].call, loc["worker"].call)}

---------------------------------------------------------------------------
(* Claims about the Story Driver, the Graph Plotter and restarts.          *)

RECURSIVE Pow10(_)
Pow10(n) == IF n = 0 THEN 1 ELSE 10 * Pow10(n - 1)

\* the digits ds, most significant first, denote v
DenotesNat(ds, v) ==
    LET place[i \in 0..Len(ds)] ==
            IF i = 0 THEN 0 ELSE place[i - 1] + DigitVal(ds[i]) * Pow10(Len(ds) - i)
    IN  /\ ds # <<>>
        /\ \A i \in 1..Len(ds) : IsDigit(ds[i])
        /\ Len(ds) > 1 => ds[1] # "0"
        /\ place[Len(ds)] = v

\* s is the decimal string of the int n
IsDecimalOf(s, n) ==
    IF n < 0 THEN s # <<>> /\ Head(s) = "-" /\ DenotesNat(Tail(s), 0 - n)
    ELSE DenotesNat(s, n)

\* the persisted entry of a node key, empty when the key or the file is absent
Persisted(file, key) ==
    IF file.exists /\ [str |-> key] \in DOMAIN file.json
    THEN file.json[[str |-> key]] ELSE EmptyEntry

\* the keys persisted in the file
PersistedKeys(file) == IF file.exists THEN {k.str : k \in DOMAIN file.json} ELSE {}

\* every node but `key` is persisted after the step exactly as before it
OthersUnchanged(key) ==
    /\ PersistedKeys(state_file') \ {key} = PersistedKeys(state_file) \ {key}
    /\ \A k \in PersistedKeys(state_file) \ {key} :
           Persisted(state_file', k) = Persisted(state_file, k)

\* C1: the k-th execute for a project since process start or since its last
\* reset returns step_int k - 1, and step_str is the decimal string of step_int.
C1_StepIsCallIndex ==
    ret.op = "execute" =>
        /\ ret.step_int = calls[ret.projectName] - 1
        /\ IsDecimalOf(ret.step_str, ret.step_int)

C1_Witness ==
    /\ ret.op = "execute"
    /\ ret.step_int = 10
    /\ ret.step_str = <<"1", "0">>
    /\ calls[ret.projectName] = 11
    /\ \E q \in ProjectNames : calls[q] = 1

\* C2: the first execute for a project after a completed reset of it (direct
\* or through the route) returns step_int 0, whatever the reset found.
C2_ResetThenZero ==
    (ret.op = "execute" /\ ret.after_reset) => ret.step_int = 0

C2_Witness ==
    /\ ret.op = "execute"
    /\ ret.after_reset
    /\ ret.reset_found >= 2
    /\ ret.step_int = 0

\* C3: every persisted node entry holds x_data and y_data of equal length n,
\* x_data is 1, 2, ..., n, and n is the number of plot_graph calls for the node
\* since its last reset.
C3_ParallelSequences ==
    \A k \in NodeKeys \cup PersistedKeys(state_file) :
        LET e == Persisted(state_file, k)
        IN  /\ Len(e.x_data) = Len(e.y_data)
            /\ \A i \in 1..Len(e.x_data) : e.x_data[i] = i
            /\ k \in NodeKeys
            /\ Len(e.x_data) = points[k]

C3_Witness ==
    /\ state_file.exists
    /\ Persisted(state_file, <<"1">>).x_data = <<1, 2>>
    /\ DefaultNode \in PersistedKeys(state_file)
    /\ Persisted(state_file, DefaultNode).x_data = <<1>>
    /\ ret.op = "reset_graph_plotter"

\* C4: a plot_graph(Y, id) call extends the persisted x_data and y_data of its
\* node by exactly one element each, the new X and the given Y, and leaves every
\* other persisted node as it was.
C4_AppendOnly ==
    [][ret'.op = "plot_graph" =>
        /\ Persisted(state_file', ret'.node_id) =
               [x_data |-> Append(Persisted(state_file, ret'.node_id).x_data, ret'.X),
                y_data |-> Append(Persisted(state_file, ret'.node_id).y_data, ret'.Y)]
        /\ OthersUnchanged(ret'.node_id)]_vars

C4_Witness ==
    /\ ret.op = "plot_graph"
    /\ ret.point_count = 2
    /\ ret.y_values = <<5, 0 - 1>>
    /\ \E k \in NodeKeys \ {ret.node_id} : Len(Persisted(state_file, k).x_data) = 1

\* C5: a completed reset of a node leaves its persisted x_data and y_data
\* empty and every other node as it was, and the next plot_graph for the node
\* returns point_count 1 with X = 1.
C5_ResetClearsOneNode ==
    [][/\ (ret'.op = "reset_node_data"
             \/ (ret'.op = "reset_graph_plotter" /\ ret'.success)) =>
            /\ PyStr(ret'.node_id) \in PersistedKeys(state_file')
            /\ Persisted(state_file', PyStr(ret'.node_id)) = EmptyEntry
            /\ OthersUnchanged(PyStr(ret'.node_id))
       /\ (ret'.op = "plot_graph" /\ ret'.after_reset) =>
            /\ ret'.point_count = 1
            /\ ret'.X = 1]_vars

C5_Witness ==
    /\ ret.op = "plot_graph"
    /\ ret.after_reset
    /\ ret.reset_found = 2
    /\ ret.X = 1
    /\ \E k \in NodeKeys \ {ret.node_id} : Len(Persisted(state_file, k).x_data) = 2

\* C7: the first plot_graph for a node after a restart returns X = the node's
\* point count before it + 1, and the first execute for a project after a
\* restart returns step 0.
C7_RestartKeepsPointsNotSteps ==
    /\ (ret.op = "plot_graph" /\ ret.after_restart) => ret.X = points[ret.node_id]
    /\ (ret.op = "execute" /\ ret.after_restart) => ret.step_int = 0

C7_Witness ==
    /\ ret.op = "plot_graph"
    /\ ret.after_restart
    /\ ret.restart_found = 1
    /\ ret.X = 2
    /\ \E p \in DOMAIN rebooted \cap ProjectNames : rebooted[p] = 2 /\ p \notin DOMAIN _steps

---------------------------------------------------------------------------
(* Claims about MF_ShotHelper.                                             *)

\* the list l read in the order perm
Permuted(l, perm) == [i \in 1..Len(l) |-> l[perm[i]]]

\* C8: a list of integer beats gives the same five outputs at every step
\* whether it is written comma-separated, one per line or in array format,
\* and in whatever order its beats are written.  (Every call on a written list
\* is compared with the same list in each notation and with each reordering
\* of it in the same notation; the reordered calls are calls of the
\* specification too, so all notations of all orders agree.)
C8_NotationsInterchangeable ==
    (shot_out.called /\ written.notation # "none") =>
        /\ \A n \in Notations :
               calculate_sequence_shot(shot_out.step, WriteBeats(written.list, n))
                   = shot_out.result
        /\ \A perm \in Permutations(1..Len(written.list)) :
               calculate_sequence_shot(shot_out.step,
                   WriteBeats(Permuted(written.list, perm), written.notation))
                   = shot_out.result

C8_Witness ==
    /\ shot_out.called
    /\ written = [notation |-> "array", list |-> <<10, 3, 0>>]
    /\ beats = <<"[", "1", "0", ",", "3", ",", "0", "]">>
    /\ shot_out.step = 11
    /\ shot_out.result.sequence_int = 4
    /\ shot_out.result.shot_int = 2

\* s is the decimal string of n, with a zero in front when it is one character
IsZeroPadded2(s, n) ==
    \/ Len(s) >= 2 /\ IsDecimalOf(s, n)
    \/ Len(s) = 2 /\ s[1] = "0" /\ IsDecimalOf(Tail(s), n)

\* name is "seq" + a + "_shot" + b with a, b the padded sequence and shot
IsShotName(name, sequence, shot) ==
    \E i \in 4..Len(name) :
        /\ SubSeq(name, 1, 3) = <<"s", "e", "q">>
        /\ IsZeroPadded2(SubSeq(name, 4, i), sequence)
        /\ SubSeq(name, i + 1, i + 5) = <<"_", "s", "h", "o", "t">>
        /\ IsZeroPadded2(SubSeq(name, i + 6, Len(name)), shot)

\* the beats of a call whose text parsed: as written when the text was written
\* from a list, else as the node read them
BeatsOfCall == IF written.notation # "none" THEN written.list ELSE ParseBeats(beats).list

\* C9: for a validly parsed beat list, sequence_int is 1 + the number of beats
\* <= step (with multiplicity), shot_int is step - (the largest beat <= step,
\* or 0) + 1, the two strings are their decimal strings and shot_name is
\* "seq" + sequence padded to 2 + "_shot" + shot padded to 2.
C9_SequenceAndShot ==
    (shot_out.called /\ ParseBeats(beats).ok) =>
        LET l == BeatsOfCall
            passed == {i \in 1..Len(l) : l[i] <= shot_out.step}
            last == IF passed = {} THEN 0
                    ELSE CHOOSE b \in {l[i] : i \in passed} :
                             \A i \in passed : l[i] <= b
            r == shot_out.result
        IN  /\ r.sequence_int = 1 + Cardinality(passed)
            /\ r.shot_int = shot_out.step - last + 1
            /\ IsDecimalOf(r.sequence_str, r.sequence_int)
            /\ IsDecimalOf(r.shot_str, r.shot_int)
            /\ IsShotName(r.shot_name, r.sequence_int, r.shot_int)

C9_Witness ==
    /\ shot_out.called
    /\ written.list = <<3, 0, 3>>
    /\ shot_out.step = 9
    /\ shot_out.result.sequence_int = 4
    /\ shot_out.result.shot_name =
           <<"s", "e", "q", "0", "4", "_", "s", "h", "o", "t", "0", "7">>

Seq01Shot01 == <<"s", "e", "q", "0", "1", "_", "s", "h", "o", "t", "0", "1">>

\* what the claim C10 says of one calculator run and the run before it
DriveStep ==
    /\ (shot_out'.called /\ shot_out'.step = 0) =>
            shot_out'.result.shot_name = Seq01Shot01
    /\ (shot_out.called /\ shot_out'.called /\ shot_out'.step = shot_out.step + 1) =>
            /\ shot_out'.result.sequence_int = shot_out.result.sequence_int +
                   (IF \E i \in 1..Len(written.list) : written.list[i] = shot_out'.step
                    THEN 1 ELSE 0)
            /\ shot_out'.result.shot_int =
                   IF shot_out'.result.sequence_int # shot_out.result.sequence_int
                   THEN 1 ELSE shot_out.result.shot_int + 1

\* the beats are distinct and all at least 1
DistinctPositiveBeats ==
    /\ \A i \in 1..Len(written.list) : written.list[i] >= 1
    /\ \A i, j \in 1..Len(written.list) : written.list[i] = written.list[j] => i = j

\* C10 as claimed: for every fixed beat list, step 0 yields seq01_shot01,
\* sequence_int grows by exactly one at each beat and not otherwise, shot_int
\* grows by one within a sequence and is 1 on the first step of a sequence.
C10_AsClaimed == [][DriveStep]_vars

\* C10 as amended: the same, for a beat list whose beats are distinct and all
\* at least 1.
C10_DrivenNames == [][DistinctPositiveBeats => DriveStep]_vars

C10_Witness ==
    /\ shot_out.called
    /\ written.list = <<10, 3>>
    /\ shot_out.step = 10
    /\ shot_out.result.shot_name =
           <<"s", "e", "q", "0", "3", "_", "s", "h", "o", "t", "0", "1">>
    /\ ret.op = "calculate_sequence_shot"

---------------------------------------------------------------------------
(* MF_ModuloAdvanced.  The node keeps no state: its outputs are computed   *)
(* from the two inputs of the call.  The ui text, which repeats the four   *)
(* numbers, is left out.                                                   *)

InputNumberMax == 999999
ModuloValueMax == 999999

MaxInput == 12       \* input_number runs over -MaxInput..MaxInput and the ends of its range
MaxModulo == 5       \* modulo_value runs over 1..MaxModulo and the end of its range

\* INPUT_TYPES: the values the host lets through
InputNumbers == {0 - InputNumberMax, InputNumberMax} \cup ((0 - MaxInput)..MaxInput)
ModuloValues == {ModuloValueMax} \cup (1..MaxModulo)

\* line 46: % with a positive right operand takes the sign of that operand
modulo_result(input_number, modulo_value) == input_number % modulo_value

\* a plausible slip: the quotient rounded toward zero, as C's / does
cycle_count_truncated(input_number, modulo_value) ==
    IF input_number < 0 THEN 0 - ((0 - input_number) \div modulo_value)
    ELSE input_number \div modulo_value

\* line 47: // rounds toward minus infinity
cycle_count(input_number, modulo_value) == input_number \div modulo_value

apply_modulo_advanced(input_number, modulo_value) ==
    /\ ret' = [op |-> "apply_modulo_advanced",
               input_number |-> input_number,
               modulo_value |-> modulo_value,
               modulo_result_int |-> modulo_result(input_number, modulo_value),
               modulo_result_string |-> Str(modulo_result(input_number, modulo_value)),
               cycle_count_int |-> cycle_count(input_number, modulo_value),
               cycle_count_string |-> Str(cycle_count(input_number, modulo_value))]
    /\ UNCHANGED <<StoryVars, PlotVars, ShotVars, RaceVars, DiskVars, rebooted>>

NextModulo ==
    \E n \in InputNumbers, m \in ModuloValues : apply_modulo_advanced(n, m)

SpecModulo == Init /\ [][NextModulo]_vars

\* C11: modulo_result lies in 0..modulo_value - 1, cycle_count * modulo_value +
\* modulo_result is input_number, and the two string outputs are the decimal
\* strings of the two integers; the outputs are thereby fixed by the inputs of
\* the call alone, whatever calls came before.
C11_RemainderAndQuotient ==
    ret.op = "apply_modulo_advanced" =>
        /\ 0 <= ret.modulo_result_int
        /\ ret.modulo_result_int < ret.modulo_value
        /\ ret.cycle_count_int * ret.modulo_value + ret.modulo_result_int = ret.input_number
        /\ IsDecimalOf(ret.modulo_result_string, ret.modulo_result_int)
        /\ IsDecimalOf(ret.cycle_count_string, ret.cycle_count_int)

C11_Witness ==
    /\ ret.op = "apply_modulo_advanced"
    /\ ret.input_number = 0 - 7
    /\ ret.modulo_value = 3
    /\ ret.modulo_result_int = 2
    /\ ret.cycle_count_int = 0 - 3
    /\ ret.cycle_count_string = <<"-", "3">>

---------------------------------------------------------------------------
(* MF_LineSelect                                                           *)

LineIndexMax == 1000

MaxText == 3         \* longest text given to select_line
MaxLineIndex == 5    \* line_index runs over -1..MaxLineIndex and the end of its range

TextAlphabet == {"a", "\n", "\r"}
Texts == UNION {[1..n -> TextAlphabet] : n \in 0..MaxText}

\* the widget sends 0..LineIndexMax; -1 is the method called with an index
\* below its range
LineIndexes == {0 - 1, LineIndexMax} \cup (0..MaxLineIndex)

\* the emoji (U+26A0 U+FE0F) that opens the message, as one element
WarningSign == "WARNING SIGN"

\* text.replace("\r\n", "\n"): the text is replaced half by half, cut where no
\* "\r\n" is split, so that a long text does not nest deeply
RECURSIVE ReplaceCrLf(_)
ReplaceCrLf(s) ==
    IF Len(s) <= 1 THEN s
    ELSE IF s = <<"\r", "\n">> THEN <<"\n">>
    ELSE IF Len(s) = 2 THEN s
    ELSE LET half == Len(s) \div 2
             cut == IF s[half] = "\r" /\ s[half + 1] = "\n" THEN half + 1 ELSE half
         IN  ReplaceCrLf(SubSeq(s, 1, cut)) \o ReplaceCrLf(SubSeq(s, cut + 1, Len(s)))

\* a plausible slip: the text is split without normalising its line endings
_normalize_text_lines_unix_only(text) == Split(text, "\n")

\* line 6
_normalize_text_lines(text) == Split(Replace(ReplaceCrLf(text), "\r", "\n"), "\n")

\* lines 70-77: the string returned
selected_line(text, line_index) ==
    LET lines == _normalize_text_lines(text)
    IN  IF line_index < 0 \/ line_index >= Len(lines)
        THEN <<WarningSign>> \o <<" ", "L", "i", "n", "e", " ", "i", "n", "d", "e", "x", " ">> \o Str(line_index)
                 \o <<" ", "o", "u", "t", " ", "o", "f", " ", "r", "a", "n", "g", "e", " ", "(", "0", "-">> \o Str(Len(lines) - 1) \o <<")">>
        ELSE lines[line_index + 1]

select_line(text, line_index) ==
    /\ ret' = [op |-> "select_line",
               text |-> text,
               line_index |-> line_index,
               selected_line |-> selected_line(text, line_index)]
    /\ UNCHANGED <<StoryVars, PlotVars, ShotVars, RaceVars, DiskVars, rebooted>>

NextLines == \E t \in Texts, i \in LineIndexes : select_line(t, i)

SpecLines == Init /\ [][NextLines]_vars

\* the positions of t where a line break starts: a "\r" (alone or followed by
\* "\n"), or a "\n" that does not follow a "\r"
BreakStarts(t) ==
    {i \in 1..Len(t) : t[i] = "\r" \/ (t[i] = "\n" /\ ~(i > 1 /\ t[i - 1] = "\r"))}

\* the number of characters of the line break that starts at i
BreakLen(t, i) == IF t[i] = "\r" /\ i < Len(t) /\ t[i + 1] = "\n" THEN 2 ELSE 1

\* where the k-th line break of t starts, k = 1, 2, ...
NthBreak(t, k) ==
    CHOOSE i \in BreakStarts(t) : Cardinality({j \in BreakStarts(t) : j < i}) = k - 1

\* the k-th segment of t between line breaks, k = 0, 1, ...
Segment(t, k) ==
    LET from == IF k = 0 THEN 1 ELSE NthBreak(t, k) + BreakLen(t, NthBreak(t, k))
        to == IF k = Cardinality(BreakStarts(t)) THEN Len(t) ELSE NthBreak(t, k + 1) - 1
    IN  SubSeq(t, from, to)

\* s is the message for index i of a text with n line breaks
IsOutOfRangeMessage(s, i, n) ==
    \E a \in 1..Len(s), b \in 1..Len(s) :
        /\ SubSeq(s, 1, 13) = <<WarningSign>> \o <<" ", "L", "i", "n", "e", " ", "i", "n", "d", "e", "x", " ">>
        /\ IsDecimalOf(SubSeq(s, 14, a), i)
        /\ SubSeq(s, a + 1, b) = <<" ", "o", "u", "t", " ", "o", "f", " ", "r", "a", "n", "g", "e", " ", "(", "0", "-">>
        /\ IsDecimalOf(SubSeq(s, b + 1, Len(s) - 1), n)
        /\ s[Len(s)] = ")"

\* C12: with n the number of line breaks of text ("\r\n", "\r" or "\n", each
\* counted once), select_line returns for 0 <= line_index <= n the
\* line_index-th segment between line breaks, empty segments included, and
\* for every other index the out-of-range message.
C12_SelectsByIndex ==
    ret.op = "select_line" =>
        LET n == Cardinality(BreakStarts(ret.text))
        IN  IF 0 <= ret.line_index /\ ret.line_index <= n
            THEN ret.selected_line = Segment(ret.text, ret.line_index)
            ELSE IsOutOfRangeMessage(ret.selected_line, ret.line_index, n)

C12_Witness ==
    /\ ret.op = "select_line"
    /\ ret.text = <<"\r", "\n", "\r">>
    /\ ret.line_index = 1
    /\ ret.selected_line = <<>>

\* the message is returned in place of a line
C12_WitnessOutOfRange ==
    /\ ret.op = "select_line"
    /\ ret.text = <<"\n", "\r", "\n">>
    /\ ret.line_index = 3
    /\ IsOutOfRangeMessage(ret.selected_line, 3, 2)

---------------------------------------------------------------------------
(* Claims about the route POST /graph_plotter/reset.                       *)

\* the body is JSON and its node_id is absent, null or the empty string
NodeIdMissingOrEmpty(request) ==
    /\ request.json
    /\ \/ "node_id" \notin DOMAIN request.data
       \/ request.data.node_id \in {[none |-> TRUE], [str |-> <<>>]}

\* the body is JSON and its node_id is an id the editor gives a node: a
\* non-empty string or a number from 1
NodeIdPresent(request) ==
    /\ request.json
    /\ "node_id" \in DOMAIN request.data
    /\ \/ "str" \in DOMAIN request.data.node_id /\ request.data.node_id.str # <<>>
       \/ "int" \in DOMAIN request.data.node_id /\ request.data.node_id.int >= 1

C13_WitnessRefused ==
    /\ ret.op = "reset_graph_plotter"
    /\ ret.status = 400
    /\ "node_id" \notin DOMAIN ret.request.data
    /\ Len(Persisted(state_file, <<"1">>).x_data) = 2

---------------------------------------------------------------------------
(* The file system as the file nodes use it.  A path is a str; the disk    *)
(* maps the paths that exist to [kind |-> "dir"] or to [kind |-> "file",   *)
(* text |-> the characters stored].  The root and the working directory    *)
(* always exist.  Every file is one written by these nodes, so it decodes  *)
(* as UTF-8; a failing call fails with the OSError of the state of the     *)
(* disk (a directory in the place of a file, a file in the place of a      *)
(* directory, a missing directory).  The text of an exception, str(e), is  *)
(* one element of the str that carries it.                                 *)

None == [none |-> TRUE]
Some(s) == [str |-> s]

\* the lower-case letter of each upper-case letter
LowerCase ==
    [c \in {"A", "B", "C", "D", "E", "F", "G", "H", "I", "J", "K", "L", "M",
            "N", "O", "P", "Q", "R", "S", "T", "U", "V", "W", "X", "Y", "Z"} |->
        CASE c = "A" -> "a" [] c = "B" -> "b" [] c = "C" -> "c" [] c = "D" -> "d"
          [] c = "E" -> "e" [] c = "F" -> "f" [] c = "G" -> "g" [] c = "H" -> "h"
          [] c = "I" -> "i" [] c = "J" -> "j" [] c = "K" -> "k" [] c = "L" -> "l"
          [] c = "M" -> "m" [] c = "N" -> "n" [] c = "O" -> "o" [] c = "P" -> "p"
          [] c = "Q" -> "q" [] c = "R" -> "r" [] c = "S" -> "s" [] c = "T" -> "t"
          [] c = "U" -> "u" [] c = "V" -> "v" [] c = "W" -> "w" [] c = "X" -> "x"
          [] c = "Y" -> "y" [] c = "Z" -> "z"]

\* s.lower()
Lower(s) == [i \in 1..Len(s) |-> IF s[i] \in DOMAIN LowerCase THEN LowerCase[s[i]] ELSE s[i]]

\* s.startswith(prefix), s.endswith(suffix)
StartsWith(s, prefix) == Len(s) >= Len(prefix) /\ SubSeq(s, 1, Len(prefix)) = prefix
EndsWith(s, suffix) ==
    Len(s) >= Len(suffix) /\ SubSeq(s, Len(s) - Len(suffix) + 1, Len(s)) = suffix

\* os.path.join(a, b)
PathJoin(a, b) ==
    IF b # <<>> /\ Head(b) = "/" THEN b
    ELSE IF a = <<>> \/ a[Len(a)] = "/" THEN a \o b
    ELSE a \o <<"/">> \o b

\* the index of the last "/" of p, 0 when there is none
LastSlash(p) ==
    IF \E i \in 1..Len(p) : p[i] = "/"
    THEN CHOOSE i \in 1..Len(p) : p[i] = "/" /\ \A j \in (i + 1)..Len(p) : p[j] # "/"
    ELSE 0

RECURSIVE RStripSlash(_)
RStripSlash(p) ==
    IF p # <<>> /\ p[Len(p)] = "/" THEN RStripSlash(SubSeq(p, 1, Len(p) - 1)) ELSE p

\* os.path.dirname(p)
Dirname(p) ==
    LET head == SubSeq(p, 1, LastSlash(p))
    IN  IF \E i \in 1..Len(head) : head[i] # "/" THEN RStripSlash(head) ELSE head

\* p and the directories above it, the root left out
PathPrefixes(p) ==
    {SubSeq(p, 1, i) : i \in {i \in 1..Len(p) : p[i] # "/" /\ (i = Len(p) \/ p[i + 1] = "/")}}

IsFile(d, p) == p \in DOMAIN d /\ d[p].kind = "file"
IsDir(d, p) == p \in {<<>>, <<"/">>} \/ (p \in DOMAIN d /\ d[p].kind = "dir")

\* os.path.exists(p)
Exists(d, p) == p \in DOMAIN d

\* os.makedirs(p, exist_ok=True): the disk afterwards, or the error raised
makedirs(d, p) ==
    IF p = <<>> THEN [ok |-> FALSE, disk |-> d, error |-> "FileNotFoundError"]
    ELSE IF IsFile(d, p) THEN [ok |-> FALSE, disk |-> d, error |-> "FileExistsError"]
    ELSE IF \E q \in PathPrefixes(p) : IsFile(d, q)
    THEN [ok |-> FALSE, disk |-> d, error |-> "NotADirectoryError"]
    ELSE [ok |-> TRUE,
          disk |-> [q \in DOMAIN d \cup PathPrefixes(p) |->
                        IF q \in PathPrefixes(p) THEN [kind |-> "dir"] ELSE d[q]],
          error |-> "none"]

\* a plausible slip: the file is always opened with "w", which empties it first
open_write_truncating(d, p, mode, text) ==
    IF IsDir(d, p) THEN [ok |-> FALSE, disk |-> d, error |-> "IsADirectoryError"]
    ELSE IF IsFile(d, Dirname(p)) \/ \E q \in PathPrefixes(Dirname(p)) : IsFile(d, q)
    THEN [ok |-> FALSE, disk |-> d, error |-> "NotADirectoryError"]
    ELSE IF ~IsDir(d, Dirname(p))
    THEN [ok |-> FALSE, disk |-> d, error |-> "FileNotFoundError"]
    ELSE [ok |-> TRUE, disk |-> Put(d, p, [kind |-> "file", text |-> text]),
          error |-> "none"]

\* open(p, "w") or open(p, "a"), f.write(text), close
open_write(d, p, mode, text) ==
    IF IsDir(d, p) THEN [ok |-> FALSE, disk |-> d, error |-> "IsADirectoryError"]
    ELSE IF IsFile(d, Dirname(p)) \/ \E q \in PathPrefixes(Dirname(p)) : IsFile(d, q)
    THEN [ok |-> FALSE, disk |-> d, error |-> "NotADirectoryError"]
    ELSE IF ~IsDir(d, Dirname(p))
    THEN [ok |-> FALSE, disk |-> d, error |-> "FileNotFoundError"]
    ELSE [ok |-> TRUE,
          disk |-> Put(d, p, [kind |-> "file",
                              text |-> IF mode = "a" /\ IsFile(d, p)
                                       THEN d[p].text \o text ELSE text]),
          error |-> "none"]

\* what f.read() returns of a file opened in text mode: "\r\n" and "\r" are
\* read as "\n" (universal newlines)
TextRead(text) == Replace(ReplaceCrLf(text), "\r", "\n")

\* open(p, "r"), f.read(), close
open_read(d, p) ==
    IF ~Exists(d, p) THEN [ok |-> FALSE, text |-> <<>>, error |-> "FileNotFoundError"]
    ELSE IF d[p].kind = "dir" THEN [ok |-> FALSE, text |-> <<>>, error |-> "IsADirectoryError"]
    ELSE [ok |-> TRUE, text |-> TextRead(d[p].text), error |-> "none"]

---------------------------------------------------------------------------
(* MF_LogFile and MF_LogReader                                             *)

MaxLogEntries == 3   \* write_log does not append more entries than this, over all files

\* folder_paths.get_output_directory()
OutputDir == <<"/", "o">>

\* datetime.datetime.now(), on the calls where it is read
Clock == {[year |-> 2026, month |-> 11, day |-> 2, hour |-> 4, minute |-> 5, second |-> 9]}

\* now.strftime("%Y-%m-%d %H:%M:%S")
Strftime(now) ==
    ZeroFill(NatStr(now.year), 4) \o <<"-">> \o ZeroFill(NatStr(now.month), 2)
        \o <<"-">> \o ZeroFill(NatStr(now.day), 2) \o <<" ">>
        \o ZeroFill(NatStr(now.hour), 2) \o <<":">> \o ZeroFill(NatStr(now.minute), 2)
        \o <<":">> \o ZeroFill(NatStr(now.second), 2)

\* the emoji that open the error texts (U+274C, U+26A0 U+FE0F), as one element
CrossMark == "CROSS MARK"

\* lines 8-19
_get_log_file_path(save_log_path, log_file_name, output_dir) ==
    LET path == IF save_log_path = None \/ Strip(save_log_path.str) = <<>>
                THEN output_dir ELSE save_log_path.str
        name == IF log_file_name = None \/ Strip(log_file_name.str) = <<>>
                THEN <<"l", "o", "g", "f", "i", "l", "e">> ELSE log_file_name.str
    IN  PathJoin(path, IF EndsWith(Lower(name), <<".", "t", "x", "t">>) THEN name ELSE name \o <<".", "t", "x", "t">>)

\* lines 65-69
formatted_entry(log_entry, enable_timestamp, now) ==
    IF enable_timestamp
    THEN <<"[">> \o Strftime(now) \o <<"]", " ">> \o log_entry \o <<"\n", "\n">>
    ELSE log_entry \o <<"\n", "\n">>

NoLog == [count |-> 0, returned |-> FALSE, log_content |-> <<>>]

\* lines 72-96, once the path is made and the entry formatted: the append, the
\* read of the whole file, and the value returned
write_log_entry(call, made, appended, read, before) ==
    LET error == IF ~made.ok THEN made.error
                 ELSE IF ~appended.ok THEN appended.error
                 ELSE read.error
        appended_so_far[P \in SUBSET DOMAIN log_prev] ==
            IF P = {} THEN 0
            ELSE LET p == CHOOSE p \in P : TRUE
                 IN  log_prev[p].count + appended_so_far[P \ {p}]
    IN  /\ appended_so_far[DOMAIN log_prev] < MaxLogEntries
        /\ disk' = appended.disk
        /\ ret' = [op |-> "write_log",
                   log_entry |-> call.log_entry,
                   enable_timestamp |-> call.enable_timestamp,
                   now |-> call.now,
                   log_file_path |-> call.log_file_path,
                   raised |-> error,
                   before |-> before,
                   log_content |-> IF error = "none" THEN read.text
                                   ELSE <<CrossMark>> \o <<" ", "E", "r", "r", "o", "r", " ", "w", "r", "i", "t", "i", "n", "g", " ", "l", "o", "g", ":", " ">> \o <<error>>]
        /\ log_prev' = IF error = "none"
                       THEN Put(log_prev, call.log_file_path,
                                [count |-> before.count + 1, returned |-> TRUE,
                                 log_content |-> read.text])
                       ELSE log_prev
        /\ UNCHANGED <<StoryVars, PlotVars, ShotVars, RaceVars, HAS_YAML, rebooted>>

write_log_append(call, made, appended) ==
    write_log_entry(call, made, appended, open_read(appended.disk, call.log_file_path),
                    Get(log_prev, call.log_file_path, NoLog))

write_log_makedirs(call, made) ==
    write_log_append(call, made,
        IF made.ok
        THEN open_write(made.disk, call.log_file_path, "a",
                        formatted_entry(call.log_entry, call.enable_timestamp, call.now))
        ELSE made)

write_log_path(call) ==
    write_log_makedirs(call, makedirs(disk, Dirname(call.log_file_path)))

write_log(log_entry, save_log_path, log_file_name, enable_timestamp, now) ==
    write_log_path([log_entry |-> log_entry, enable_timestamp |-> enable_timestamp,
                    now |-> now,
                    log_file_path |->
                        _get_log_file_path(save_log_path, log_file_name, OutputDir)])

read_log(log_file_path, log_file_name) ==
    LET full_path == _get_log_file_path(log_file_path, log_file_name, OutputDir)
        read == open_read(disk, full_path)
    IN  /\ ret' = [op |-> "read_log",
                   full_path |-> full_path,
                   found |-> Exists(disk, full_path),
                   raised |-> IF Exists(disk, full_path) THEN read.error ELSE "none",
                   log_content |->
                       IF ~Exists(disk, full_path)
                       THEN <<WarningSign>> \o <<" ", "L", "o", "g", " ", "f", "i", "l", "e", " ", "n", "o", "t", " ", "f", "o", "u", "n", "d", ":", " ">> \o full_path
                       ELSE IF read.ok THEN read.text
                       ELSE <<CrossMark>> \o <<" ", "E", "r", "r", "o", "r", " ", "r", "e", "a", "d", "i", "n", "g", " ", "l", "o", "g", " ", "f", "i", "l", "e", ":", " ">> \o <<read.error>>]
        /\ UNCHANGED <<StoryVars, PlotVars, ShotVars, RaceVars, DiskVars, rebooted>>

\* the entry texts, and the (save_log_path, log_file_name) pairs, of the calls
LogEntries == {<<"a">>, <<"b", "\r", "c">>}

LogTargets == {<<None, None>>,
               <<Some(<<" ">>), Some(<<"l", "o", "g", "f", "i", "l", "e", ".", "t", "x", "t">>)>>,
               <<Some(OutputDir), Some(<<"L", ".", "T", "X", "T">>)>>,
               <<Some(<<"/", "o", "/", "L", ".", "T", "X", "T">>), Some(<<"l", "o", "g", "f", "i", "l", "e">>)>>}

NextLog ==
    \/ \E e \in LogEntries, t \in LogTargets, ts \in BOOLEAN, now \in Clock :
          write_log(e, t[1], t[2], ts, now)
    \/ \E t \in LogTargets : read_log(t[1], t[2])

SpecLog == Init /\ [][NextLog]_vars

---------------------------------------------------------------------------
(* Claims about MF_LogFile.                                                *)

\* the entry of a call as the claim C14 words it: the entry text, after the
\* timestamp in brackets when enable_timestamp is true, then a blank line
EntryOfCall(call) ==
    (IF call.enable_timestamp THEN <<"[">> \o Strftime(call.now) \o <<"]", " ">> ELSE <<>>)
        \o call.log_entry \o <<"\n", "\n">>

\* the text t with each of its line breaks ("\r\n", "\r" or "\n") given as "\n"
WithUnixLineBreaks(t) ==
    Join([k \in 1..(Cardinality(BreakStarts(t)) + 1) |-> Segment(t, k - 1)], "\n")

\* the call is a successful write_log on a file whose previous write_log call
\* was successful too
FollowsSuccessfulWrite ==
    ret.op = "write_log" /\ ret.raised = "none" /\ ret.before.returned

\* C14 as claimed: the log_content a successful write_log returns is the
\* log_content the previous successful call on the same file returned, followed
\* by the new formatted entry.
C14_AsClaimed ==
    FollowsSuccessfulWrite =>
        ret.log_content = ret.before.log_content \o EntryOfCall(ret)

\* C14 as amended: the same, with the line breaks of the new formatted entry
\* ("\r\n" or "\r" inside the entry text) returned as "\n".
C14_AppendsInCallOrder ==
    FollowsSuccessfulWrite =>
        ret.log_content = ret.before.log_content \o WithUnixLineBreaks(EntryOfCall(ret))

C14_Witness ==
    /\ FollowsSuccessfulWrite
    /\ ret.log_file_path = <<"/", "o", "/", "l", "o", "g", "f", "i", "l", "e", ".", "t", "x", "t">>
    /\ ret.before.log_content = <<"a", "\n", "\n">>
    /\ ret.log_entry = <<"b", "\r", "c">>
    /\ ret.log_content = <<"a", "\n", "\n", "[", "2", "0", "2", "6", "-", "1", "1", "-", "0", "2", " ", "0", "4", ":", "0", "5", ":", "0", "9", "]", " ", "b", "\n", "c", "\n", "\n">>
    /\ disk[ret.log_file_path].text = <<"a", "\n", "\n", "[", "2", "0", "2", "6", "-", "1", "1", "-", "0", "2", " ", "0", "4", ":", "0", "5", ":", "0", "9", "]", " ", "b", "\r", "c", "\n", "\n">>

---------------------------------------------------------------------------
(* MF_SaveData and MF_ReadData.  The json, xml, csv and yaml libraries are  *)
(* modelled on the documents of DataValues and on what the nodes write of  *)
(* them: a parsed value is [list |-> a list of ints] or [str |-> a str].    *)

\* the character U+0060, which cannot be written in a string of this module
Backtick == "GRAVE ACCENT"

Fence == <<Backtick, Backtick, Backtick>>

\* the data the nodes are given: a JSON array inside a markdown fence, a text
\* that is neither JSON, XML nor YAML, and an XML element
DataValues == {Fence \o <<"j", "s", "o", "n", "\n", "[", "1", "]", "\n">> \o Fence,
               <<"{">>,
               <<"<", "a", "/", ">">>}

Formats == {<<"j", "s", "o", "n">>, <<"x", "m", "l">>, <<"c", "s", "v">>, <<"y", "a", "m", "l">>}

\* lines 26-37
_clean_markdown_fences(data) ==
    LET stripped == Strip(data)
        lines == Split(stripped, "\n")
        opened == IF StartsWith(lines[1], Fence) THEN Tail(lines) ELSE lines
        closed == IF opened # <<>> /\ Strip(opened[Len(opened)]) = Fence
                  THEN SubSeq(opened, 1, Len(opened) - 1) ELSE opened
    IN  IF StartsWith(stripped, Fence) THEN Join(closed, "\n") ELSE stripped

NoValue == [ok |-> FALSE]

\* json.loads(text): the JSON documents are [1] and its indented form
json_loads(text) ==
    IF text \in {<<"[", "1", "]">>, <<"[", "\n", " ", " ", "1", "\n", "]">>} THEN [ok |-> TRUE, value |-> [list |-> <<1>>]]
    ELSE NoValue

\* json.dumps(value, indent=2, ensure_ascii=False)
json_dumps(value) ==
    IF "str" \in DOMAIN value THEN <<"\"">> \o value.str \o <<"\"">>
    ELSE IF value.list = <<>> THEN <<"[", "]">>
    ELSE <<"[", "\n">> \o Join([i \in 1..Len(value.list) |-> <<" ", " ">> \o Str(value.list[i])], ",")
             \o <<"\n", "]">>

\* yaml.dump(value, default_flow_style=False, allow_unicode=True) of a list
RECURSIVE yaml_dump_items(_)
yaml_dump_items(list) ==
    IF list = <<>> THEN <<>>
    ELSE <<"-", " ">> \o Str(Head(list)) \o <<"\n">> \o yaml_dump_items(Tail(list))

yaml_dump(value) == IF value.list = <<>> THEN <<"[", "]", "\n">> ELSE yaml_dump_items(value.list)

\* yaml.safe_load(text): a block sequence, a plain scalar, or a YAMLError
yaml_safe_load(text) ==
    IF text = <<"-", " ", "1", "\n">> THEN [ok |-> TRUE, value |-> [list |-> <<1>>]]
    ELSE IF text = <<"<", "a", "/", ">">> THEN [ok |-> TRUE, value |-> [str |-> text]]
    ELSE NoValue

XmlDeclaration == <<"<", "?", "x", "m", "l", " ", "v", "e", "r", "s", "i", "o", "n", "=", "'", "1", ".", "0", "'", " ", "e", "n", "c", "o", "d", "i", "n", "g", "=", "'", "u", "t", "f", "-", "8", "'", "?", ">", "\n">>

\* ET.fromstring(data), ET.indent, serialised: the XML document is <a/>
xml_fromstring(data) ==
    IF data = <<"<", "a", "/", ">">> THEN [ok |-> TRUE, value |-> [str |-> <<"<", "a", " ", "/", ">">>]] ELSE NoValue

\* lines 96-110: the bytes tree.write stores
xml_text(data) ==
    IF xml_fromstring(data).ok THEN XmlDeclaration \o xml_fromstring(data).value.str
    ELSE XmlDeclaration \o <<"<", "d", "a", "t", "a", ">">> \o data \o <<"<", "/", "d", "a", "t", "a", ">">>

\* lines 214-219: ET.parse of a file tree.write stored, ET.tostring of its root
xml_parse(text) ==
    IF StartsWith(text, XmlDeclaration)
    THEN [ok |-> TRUE, value |-> [str |-> SubSeq(text, Len(XmlDeclaration) + 1, Len(text))]]
    ELSE NoValue

\* lines 112-134: the rows csv.writer stores, one per item of a JSON list,
\* else the data as a single row
RECURSIVE csv_rows(_)
csv_rows(list) ==
    IF list = <<>> THEN <<>>
    ELSE Str(Head(list)) \o <<"\r", "\n">> \o csv_rows(Tail(list))

csv_text(data) ==
    IF json_loads(data).ok THEN csv_rows(json_loads(data).value.list)
    ELSE data \o <<"\r", "\n">>

\* lines 221-231 for a file of one row: DictReader takes the row as header and
\* finds no data, csv.reader then gives the row itself
csv_read(text) ==
    <<"[", "\n", " ", " ", "[", "\n", " ", " ", " ", " ", "\"">> \o Split(text, "\n")[1] \o <<"\"", "\n", " ", " ", "]", "\n", "]">>

\* os.path.splitext(filename)[1].lower().lstrip(".")
Ext(filename) ==
    LET dots == {i \in (LastSlash(filename) + 1)..Len(filename) : filename[i] = "."}
        dot == CHOOSE i \in dots : \A j \in dots : j <= i
    IN  IF dots # {} /\ \E i \in (LastSlash(filename) + 1)..(dot - 1) : filename[i] # "."
        THEN Lower(SubSeq(filename, dot + 1, Len(filename)))
        ELSE <<>>

\* lines 68-75: what the format's _save method writes, or the error it raises
\* before it opens the file
save_text(data, format) ==
    IF format = <<"j", "s", "o", "n">>
    THEN [ok |-> TRUE,
          text |-> IF json_loads(data).ok THEN json_dumps(json_loads(data).value) ELSE data]
    ELSE IF format = <<"x", "m", "l">> THEN [ok |-> TRUE, text |-> xml_text(data)]
    ELSE IF format = <<"c", "s", "v">> THEN [ok |-> TRUE, text |-> csv_text(data)]
    ELSE IF ~HAS_YAML THEN [ok |-> FALSE, text |-> <<>>]
    ELSE [ok |-> TRUE,
          text |-> IF json_loads(data).ok THEN yaml_dump(json_loads(data).value) ELSE data]

\* a plausible slip: the path is returned from the except branch too
save_data_return_path_always(call, filepath, saved) ==
    /\ disk' = saved.disk
    /\ ret' = [op |-> "save_data",
               data |-> call.data,
               output_path |-> call.output_path,
               filename |-> call.filename,
               format |-> call.format,
               raised |-> saved.error,
               filepath |-> filepath]
    /\ UNCHANGED <<StoryVars, PlotVars, ShotVars, RaceVars, HAS_YAML, log_prev, rebooted>>

\* lines 77-82: the value returned and the disk left
save_data_return(call, filepath, saved) ==
    /\ disk' = saved.disk
    /\ ret' = [op |-> "save_data",
               data |-> call.data,
               output_path |-> call.output_path,
               filename |-> call.filename,
               format |-> call.format,
               raised |-> saved.error,
               filepath |-> IF saved.ok THEN filepath ELSE <<"E", "r", "r", "o", "r", ":", " ">> \o <<saved.error>>]
    /\ UNCHANGED <<StoryVars, PlotVars, ShotVars, RaceVars, HAS_YAML, log_prev, rebooted>>

save_data_write(call, filepath, made, text) ==
    save_data_return(call, filepath,
        IF ~made.ok THEN made
        ELSE IF ~text.ok THEN [ok |-> FALSE, disk |-> made.disk, error |-> "RuntimeError"]
        ELSE open_write(made.disk, filepath, "w", text.text))

save_data(data, output_path, filename, format) ==
    save_data_write([data |-> data, output_path |-> output_path,
                     filename |-> filename, format |-> format],
                    PathJoin(output_path, filename \o <<".">> \o format),
                    makedirs(disk, output_path),
                    save_text(_clean_markdown_fences(data), format))

\* lines 186-198: the str read from the text of the file, or the error raised
read_text(ext, text) ==
    IF ext = <<"j", "s", "o", "n">>
    THEN (IF json_loads(text).ok
          THEN [ok |-> TRUE, data |-> json_dumps(json_loads(text).value), error |-> "none"]
          ELSE [ok |-> FALSE, data |-> <<>>, error |-> "JSONDecodeError"])
    ELSE IF ext = <<"x", "m", "l">>
    THEN (IF xml_parse(text).ok
          THEN [ok |-> TRUE, data |-> xml_parse(text).value.str, error |-> "none"]
          ELSE [ok |-> FALSE, data |-> <<>>, error |-> "ParseError"])
    ELSE IF ext = <<"c", "s", "v">> THEN [ok |-> TRUE, data |-> csv_read(text), error |-> "none"]
    ELSE IF ext \in {<<"y", "a", "m", "l">>, <<"y", "m", "l">>}
    THEN (IF ~HAS_YAML THEN [ok |-> FALSE, data |-> <<>>, error |-> "RuntimeError"]
          ELSE IF yaml_safe_load(text).ok
          THEN [ok |-> TRUE, data |-> json_dumps(yaml_safe_load(text).value), error |-> "none"]
          ELSE [ok |-> FALSE, data |-> <<>>, error |-> "YAMLError"])
    ELSE [ok |-> TRUE, data |-> text, error |-> "none"]

read_data_return(call, filepath, read, parsed) ==
    /\ ret' = [op |-> "read_data",
               file_path |-> call.file_path,
               filename |-> call.filename,
               filepath |-> filepath,
               found |-> Exists(disk, filepath),
               raised |-> IF ~Exists(disk, filepath) THEN "none"
                          ELSE IF ~read.ok THEN read.error ELSE parsed.error,
               data |-> IF ~Exists(disk, filepath) THEN <<"F", "i", "l", "e", " ", "n", "o", "t", " ", "f", "o", "u", "n", "d", ":", " ">> \o filepath
                        ELSE IF ~read.ok THEN <<"E", "r", "r", "o", "r", ":", " ">> \o <<read.error>>
                        ELSE IF ~parsed.ok THEN <<"E", "r", "r", "o", "r", ":", " ">> \o <<parsed.error>>
                        ELSE parsed.data]
    /\ UNCHANGED <<StoryVars, PlotVars, ShotVars, RaceVars, DiskVars, rebooted>>

read_data_open(call, filepath, read) ==
    read_data_return(call, filepath, read,
        IF ~read.ok THEN read
        ELSE IF Ext(call.filename) \in {<<"y", "a", "m", "l">>, <<"y", "m", "l">>} /\ ~HAS_YAML
             THEN [ok |-> FALSE, data |-> <<>>, error |-> "RuntimeError"]
        ELSE read_text(Ext(call.filename), read.text))

read_data(file_path, filename) ==
    read_data_open([file_path |-> file_path, filename |-> filename],
                   PathJoin(file_path, filename),
                   open_read(disk, PathJoin(file_path, filename)))

\* the four file nodes on one disk, with or without pyyaml
SaveCalls ==
    {<<d, OutputDir, <<"d">>, f>> : d \in DataValues, f \in Formats}
    \cup {<<<<"{">>, <<>>, <<"d">>, <<"j", "s", "o", "n">>>>,
          <<<<"{">>, OutputDir, <<"s", "/", "d">>, <<"j", "s", "o", "n">>>>,
          <<<<"{">>, <<"/", "o", "/", "L", ".", "T", "X", "T">>, <<"d">>, <<"j", "s", "o", "n">>>>}

ReadCalls ==
    {<<OutputDir, <<"d", ".">> \o f>> : f \in Formats}
    \cup {<<OutputDir, <<"L", ".", "T", "X", "T">>>>, <<<<"/">>, <<"o">>>>}

InitFiles ==
    /\ InitStory /\ InitPlot /\ InitShotIdle /\ InitRaceIdle
    /\ disk = EmptyDict /\ HAS_YAML \in BOOLEAN /\ log_prev = EmptyDict
    /\ ret = [op |-> "start"]
    /\ rebooted = EmptyDict

NextFiles ==
    \/ \E c \in SaveCalls : save_data(c[1], c[2], c[3], c[4])
    \/ \E c \in ReadCalls : read_data(c[1], c[2])
    \/ \E now \in Clock : write_log(<<"a">>, Some(OutputDir), Some(<<"L", ".", "T", "X", "T">>), FALSE, now)
    \/ \E t \in {<<None, None>>, <<Some(OutputDir), Some(<<"L", ".", "T", "X", "T">>)>>} : read_log(t[1], t[2])

SpecFiles == InitFiles /\ [][NextFiles]_vars

---------------------------------------------------------------------------
(* Claims about the failures of the file nodes.                            *)

\* the path output_path/filename.format of a save_data call
SavePath(call) == call.output_path \o <<"/">> \o call.filename \o <<".">> \o call.format

IsSaveError(s) == StartsWith(s, <<"E", "r", "r", "o", "r", ":", " ">>)
IsWriteLogError(s) == StartsWith(s, <<CrossMark>> \o <<" ", "E", "r", "r", "o", "r", " ", "w", "r", "i", "t", "i", "n", "g", " ", "l", "o", "g", ":", " ">>)
IsReadLogError(s) == StartsWith(s, <<CrossMark>> \o <<" ", "E", "r", "r", "o", "r", " ", "r", "e", "a", "d", "i", "n", "g", " ", "l", "o", "g", " ", "f", "i", "l", "e", ":", " ">>)

\* C15: each call of a file node returns a value.  save_data returns an
\* "Error: ..." string when the directory cannot be made, the file cannot be
\* opened or pyyaml is missing, and the path output_path/filename.format only
\* when nothing failed and the file is on the disk; read_data returns
\* "File not found: <path>" for a missing file and an "Error: ..." string when
\* the file cannot be opened or parsed; write_log and read_log return their
\* error texts when the log file is a directory, cannot be written, or is missing.
C15_ErrorsAreValues ==
    [][/\ ret'.op = "save_data" =>
            /\ (\/ ret'.raised # "none"
                \/ ret'.output_path = <<>>
                \/ IsFile(disk, ret'.output_path)
                \/ IsDir(disk, SavePath(ret'))
                \/ (ret'.format = <<"y", "a", "m", "l">> /\ ~HAS_YAML)) => IsSaveError(ret'.filepath)
            /\ ret'.filepath = SavePath(ret') =>
                   ret'.raised = "none" /\ IsFile(disk', SavePath(ret'))
            /\ IsSaveError(ret'.filepath) \/ ret'.filepath = SavePath(ret')
       /\ ret'.op = "read_data" =>
            /\ ~Exists(disk, ret'.filepath) <=>
                   ret'.data = <<"F", "i", "l", "e", " ", "n", "o", "t", " ", "f", "o", "u", "n", "d", ":", " ">> \o ret'.filepath
            /\ (ret'.raised # "none" \/ IsDir(disk, ret'.filepath)) => IsSaveError(ret'.data)
       /\ ret'.op = "write_log" =>
            (ret'.raised # "none" \/ IsDir(disk, ret'.log_file_path)) <=>
                IsWriteLogError(ret'.log_content)
       /\ ret'.op = "read_log" =>
            /\ ~Exists(disk, ret'.full_path) <=>
                   ret'.log_content = <<WarningSign>> \o <<" ", "L", "o", "g", " ", "f", "i", "l", "e", " ", "n", "o", "t", " ", "f", "o", "u", "n", "d", ":", " ">> \o ret'.full_path
            /\ (ret'.raised # "none" \/ IsDir(disk, ret'.full_path)) <=>
                   IsReadLogError(ret'.log_content)]_vars

\* save_data has returned an error for the yaml format without pyyaml; the
\* json file saved before holds text that is not JSON and the log path is a
\* directory, so that read_data and write_log fail on them
C15_Witness ==
    /\ ret.op = "save_data"
    /\ ret.format = <<"y", "a", "m", "l">>
    /\ ret.raised = "RuntimeError"
    /\ ret.filepath = <<"E", "r", "r", "o", "r", ":", " ">> \o <<"RuntimeError">>
    /\ ~Exists(disk, <<"/", "o", "/", "d", ".", "y", "a", "m", "l">>)
    /\ IsFile(disk, <<"/", "o", "/", "d", ".", "j", "s", "o", "n">>) /\ disk[<<"/", "o", "/", "d", ".", "j", "s", "o", "n">>].text = <<"{">>
    /\ IsDir(disk, <<"/", "o", "/", "L", ".", "T", "X", "T">>)

C15_WitnessReadData ==
    /\ ret.op = "read_data"
    /\ ret.raised = "JSONDecodeError"
    /\ IsSaveError(ret.data)

C15_WitnessWriteLog ==
    /\ ret.op = "write_log"
    /\ ret.raised = "IsADirectoryError"
    /\ IsWriteLogError(ret.log_content)

C15_WitnessReadLog ==
    /\ ret.op = "read_log"
    /\ ret.raised = "IsADirectoryError"
    /\ IsReadLogError(ret.log_content)

C15_WitnessSaved ==
    /\ ret.op = "save_data"
    /\ ret.filepath = <<"/", "o", "/", "d", ".", "c", "s", "v">>
    /\ disk[<<"/", "o", "/", "d", ".", "c", "s", "v">>].text = <<"1", "\r", "\n">>

---------------------------------------------------------------------------
(* Claims about the beats text that is not a list of integers.             *)

\* the elements of a beats text: what stands between its commas and line
\* breaks, inside its brackets if it has them, blank elements left out
BeatElements(b) ==
    LET pieces == Split(Replace(StripBrackets(Strip(b)), "\n", ","), ",")
    IN  SelectSeq(pieces, LAMBDA piece : Strip(piece) # <<>>)

HasInvalidElement(b) ==
    \E i \in 1..Len(BeatElements(b)) : ~ParseInt(BeatElements(b)[i]).ok

\* C16: when the beats text is empty, whitespace only, or has an element that
\* is not an integer, calculate_sequence_shot returns (it does not raise)
\* sequence 1 and shot step + 1 for every step: the elements that are
\* integers are discarded with the others.
C16_InvalidBeatsGiveEmptyList ==
    (shot_out.called /\ (Strip(beats) = <<>> \/ HasInvalidElement(beats)))
        => /\ shot_out.result.sequence_int = 1
           /\ shot_out.result.sequence_str = <<"1">>
           /\ shot_out.result.shot_int = shot_out.step + 1
           /\ shot_out.result.shot_str = Str(shot_out.step + 1)

\* "1,x" at step 5: the beat 1 alone would open sequence 2
C16_Witness ==
    /\ shot_out.called
    /\ beats = <<"1", ",", "x">>
    /\ shot_out.step = 5
    /\ shot_out.result.sequence_int = 1
    /\ shot_out.result.shot_int = 6

\* whitespace only, at a negative step
C16_WitnessBlank ==
    /\ shot_out.called
    /\ beats = <<" ", "\n">>
    /\ shot_out.step = 0 - 1
    /\ shot_out.result.sequence_int = 1
    /\ shot_out.result.shot_int = 0

---------------------------------------------------------------------------
(* The Story Driver called from two threads: execute runs on the host's    *)
(* execution thread, the reset route on its server thread.  execute reads  *)
(* the counter (line 145) and stores the incremented value (line 148) as   *)
(* two steps; the route's one access to _steps is the store of line 173.   *)
(* When both have returned, the next prompt runs execute again.            *)

\* the counters left by earlier prompts
StoryCounters ==
    UNION {[P -> 0..(MaxCount - 2)] : P \in SUBSET ProjectNames}

StoryRaceRequests == {r \in StoryRequests : r.json}

InitStoryRace ==
    /\ InitPlot /\ InitShotIdle /\ InitDiskIdle
    /\ ret = [op |-> "start"]
    /\ rebooted = EmptyDict
    /\ _steps \in StoryCounters
    /\ calls = [p \in ProjectNames |-> Get(_steps, p, 0)]
    /\ fresh_projects = EmptyDict
    /\ race_start = _steps
    /\ pc = [t \in Threads |-> "called"]
    /\ \E p \in ProjectNames, r \in StoryRaceRequests :
          loc = [worker |-> [projectName |-> p, current_step |-> 0],
                 server |-> [request |-> r, found |-> "none"]]

\* current_step = _steps.get(projectName, 0)
story_read ==
    /\ pc["worker"] = "called"
    /\ loc' = [loc EXCEPT !["worker"].current_step = execute_step(loc["worker"].projectName)]
    /\ pc' = [pc EXCEPT !["worker"] = "loaded"]
    /\ UNCHANGED <<StoryVars, PlotVars, ShotVars, DiskVars, race_start, ret, rebooted>>

\* _steps[projectName] = current_step + 1, with the value read earlier
story_store(projectName, current_step) == Put(_steps, projectName, current_step + 1)

story_write ==
    /\ pc["worker"] = "loaded"
    /\ _steps' = story_store(loc["worker"].projectName, loc["worker"].current_step)
    /\ calls' = [calls EXCEPT ![loc["worker"].projectName] = @ + 1]
    /\ fresh_projects' = Without(fresh_projects, loc["worker"].projectName)
    /\ ret' = [op |-> "execute", following |-> FALSE,
               projectName |-> loc["worker"].projectName,
               step_int |-> loc["worker"].current_step,
               step_str |-> Str(loc["worker"].current_step)]
    /\ pc' = [pc EXCEPT !["worker"] = "returned"]
    /\ UNCHANGED <<PlotVars, ShotVars, DiskVars, loc, race_start, rebooted>>

\* the route handler on the server thread; found records where execute stood
story_reset ==
    /\ pc["server"] = "called"
    /\ do_reset_project(request_project_name(loc["server"].request.data))
    /\ ret' = [op |-> "reset_story_driver", status |-> 200, success |-> TRUE,
               project_name |-> request_project_name(loc["server"].request.data),
               step |-> 0]
    /\ loc' = [loc EXCEPT !["server"].found = pc["worker"]]
    /\ pc' = [pc EXCEPT !["server"] = "returned"]
    /\ UNCHANGED <<PlotVars, ShotVars, DiskVars, race_start, rebooted>>

\* the next prompt: execute for the same project, alone
story_next ==
    /\ \A t \in Threads : pc[t] = "returned"
    /\ execute_step(loc["worker"].projectName) < MaxCount
    /\ _steps' = execute_store(loc["worker"].projectName)
    /\ calls' = [calls EXCEPT ![loc["worker"].projectName] = @ + 1]
    /\ fresh_projects' = Without(fresh_projects, loc["worker"].projectName)
    /\ ret' = [op |-> "execute", following |-> TRUE,
               projectName |-> loc["worker"].projectName,
               step_int |-> execute_step(loc["worker"].projectName),
               step_str |-> Str(execute_step(loc["worker"].projectName))]
    /\ pc' = [pc EXCEPT !["worker"] = "done"]
    /\ UNCHANGED <<PlotVars, ShotVars, DiskVars, loc, race_start, rebooted>>

NextStoryRace ==
    \/ story_read
    \/ story_write
    \/ story_reset
    \/ story_next

SpecStoryRace == InitStoryRace /\ [][NextStoryRace]_vars

\* the reset and the execute name the same project, and the reset ran
\* between execute's read of the counter and its write
ResetInsideExecute ==
    /\ request_project_name(loc["server"].request.data) = loc["worker"].projectName
    /\ loc["server"].found = "loaded"

\* what the next execute returns: the step after the one the interrupted
\* execute read when the reset ran inside it, 1 when the reset ran before it,
\* 0 when the reset ran after it
StoryRaceOutcome ==
    (pc["worker"] = "done"
        /\ request_project_name(loc["server"].request.data) = loc["worker"].projectName)
    => ret.step_int = CASE loc["server"].found = "loaded" ->
                               Get(race_start, loc["worker"].projectName, 0) + 1
                        [] loc["server"].found = "called" -> 1
                        [] OTHER -> 0

\* C17: when reset_project(p) runs between the read and the write of an
\* execute for p on another thread, the next execute for p, after both have
\* finished, returns 0 or 1: the reset is not lost.
C17_ResetNeverLost ==
    (pc["worker"] = "done" /\ ResetInsideExecute) => ret.step_int \in {0, 1}

====
